---- MODULE Spec2Model ----
(***************************************************************************)
(* A model of salp: Go bindings that create and fire USDT probes through   *)
(* libstapsdt.  The model follows the current salp.go (NewProvider,        *)
(* AddProbe, Load, Unload, Dispose, Enabled, Fire, fireImpl and the two    *)
(* cgo wrappers salp_providerAddProbe and salp_probeFire).                 *)
(*                                                                         *)
(* State of the native structures the Go code reads and writes:            *)
(*   provider  the SDTProvider_t: name, errno, error and whether its       *)
(*             shared object is loaded or the structure was destroyed      *)
(*   probes    the SDTProbe_t list of the provider, in creation order      *)
(*   mem       the first byte of each loaded probe's trampoline            *)
(*   attached  the probes an external tracer currently observes            *)
(*   heap      the live C buffers obtained from C.CString                  *)
(*   call      the position and locals of the Fire call of the caller      *)
(*   peer      the same of a Fire call made by a second goroutine          *)
(*   ret       the caller's last operation and what it returned            *)
(*   history   "fresh" until the first successful Load, "loaded" while     *)
(*             loaded, then "unloaded", or "detached" when the Unload      *)
(*             took a tracer's breakpoint away                             *)
(***************************************************************************)
EXTENDS Integers, Sequences, FiniteSets, TLC

VARIABLES provider, probes, mem, attached, heap, call, peer, ret, history

vars == <<provider, probes, mem, attached, heap, call, peer, ret, history>>

-----------------------------------------------------------------------------
(* Bounds of the model and constants of the program. *)

\* #if 6 != MAX_ARGUMENTS: the number of slots of a probe.
MAX_ARGUMENTS == 6

\* The x86 no-op encoding Enabled tests the trampoline against (0x90).
NopByte == 144

\* Most probes added to the provider.
MaxProbes == 2

\* Most argument types passed to one AddProbe (one more than the limit).
MaxTypes == 7

\* Most arguments passed to one Fire (one more than the limit).
MaxArgs == 7

-----------------------------------------------------------------------------
(* Text.  A Go string is a sequence of bytes; a C string is the bytes up   *)
(* to the first NUL.                                                       *)

RECURSIVE strlen(_)
strlen(buf) ==
    IF buf = <<>> \/ Head(buf) = 0 THEN 0 ELSE 1 + strlen(Tail(buf))

\* C.CString: a fresh NUL-terminated copy of the bytes of a Go string.
CString(s) == Append(s, 0)

\* C.GoString: the bytes of a C string up to its terminator.
GoString(buf) == SubSeq(buf, 1, strlen(buf))

\* The native library keeps its own copy (up to the terminator) of a name.
NativeCopy(cstr) == CString(GoString(cstr))

ProviderNames == { <<102, 111, 111>> }

\* Names with and without a NUL byte in them ("foo", "f\0o"; "bar",
\* "b\0r" and the provider's "foo"): a Go string may hold any bytes.
NameInputs == { <<102, 111, 111>>, <<102, 0, 111>> }

ProbeNameInputs == { <<98, 97, 114>>, <<98, 0, 114>>, <<102, 111, 111>> }

ProbeNames == { <<98, 97, 114>>, <<98, 97, 122>> }

\* What the caller passes to the j-th AddProbe that adds a probe: a name and
\* a number of argument types.  The first probe is added with any name and
\* any number 0..MaxTypes of types; the probes beside it with one name and
\* few, many or too many types.
AddProbeInputs(j) ==
    IF j = 1 THEN ProbeNames \X (0..MaxTypes)
    ELSE { <<98, 97, 122>> } \X {2, 6, MaxTypes}

-----------------------------------------------------------------------------
(* Argument type tags (ArgType_t).  Bool and Byte are Uint8; String and    *)
(* Error are Uint64.                                                       *)

Uint8 == "uint8"
Bool == Uint8
Byte == Uint8
Int8 == "int8"
Uint16 == "uint16"
Int16 == "int16"
Uint32 == "uint32"
Int32 == "int32"
Uint64 == "uint64"
Int64 == "int64"
String == Uint64
Error == String
noarg == "noarg"

TagPalette == <<String, Int32, Uint8, Int16, Error, Bool, Int64, Uint16, Int8, Uint32>>

\* The argument types a caller passes to AddProbe: k tags.
ArgTypes(k) == [i \in 1..k |-> TagPalette[((i - 1) % Len(TagPalette)) + 1]]

-----------------------------------------------------------------------------
(* Go values passed to Fire: a runtime type t and, by type, an integer n,   *)
(* a boolean b or the bytes s of a string or of an error's message.        *)

GoInt(t, n) == [t |-> t, n |-> n, b |-> FALSE, s |-> <<>>]
GoBool(b) == [t |-> "bool", n |-> 0, b |-> b, s |-> <<>>]
GoText(t, s) == [t |-> t, n |-> 0, b |-> FALSE, s |-> s]

IntTypes == {"int8", "uint8", "int16", "uint16", "int", "uint",
             "int32", "uint32", "int64", "uint64", "uintptr"}

SupportedTypes == IntTypes \cup {"bool", "string", "error"}

\* struct{}{} and a float64: runtime types fireImpl has no case for.
Unsupported == GoText("struct", <<>>)
Float == GoInt("float64", 1)

MixedPalette ==
    << GoText("string", <<98, 97, 114>>), GoInt("int", 3), GoBool(TRUE),
       GoInt("int8", -1), GoText("error", <<101>>), GoInt("uint16", 65535),
       GoInt("int64", -5), GoInt("uint8", 255) >>

PlainPalette ==
    << GoInt("int32", -70000), GoInt("uint", 9), GoInt("uint32", 70000),
       GoBool(FALSE), GoInt("uint64", 11), GoInt("uintptr", 4096),
       GoInt("int16", -300), GoText("string", <<>>) >>

\* Integers of every integer type, at and near the ends of its range (of
\* the 64-bit types: the values that fit in 32 bits).
IntInputs ==
    { GoInt("int8", n) : n \in {-128, -1, 0, 1, 127} }
    \cup { GoInt("uint8", n) : n \in {0, 128, 255} }
    \cup { GoInt("int16", n) : n \in {-32768, -129, 255, 32767} }
    \cup { GoInt("uint16", n) : n \in {0, 32768, 65535} }
    \cup { GoInt("int32", n) : n \in {-2147483647, -32769, 65536, 2147483647} }
    \cup { GoInt("uint32", n) : n \in {0, 65536, 2147483647} }
    \cup { GoInt(t, n) : t \in {"int64", "int"},
                         n \in {-2147483647, -1, 0, 2147483647} }
    \cup { GoInt(t, n) : t \in {"uint64", "uint", "uintptr"},
                         n \in {0, 2147483647} }

\* Declarations of two argument types, and lists of two arguments whose
\* runtime types match some of them and not others.
TagLists == { <<String, Int32>>, <<Int32, String>>, <<Bool, Int8>> }

TagArgs ==
    { << GoText("string", <<98, 97, 114>>), GoInt("int", 3) >>,
      << GoInt("int32", -7), GoText("string", <<98>>) >>,
      << GoBool(TRUE), GoText("error", <<101>>) >>,
      << Unsupported, Unsupported >> }

\* The tag a caller would declare for an argument of this runtime type.
TagOf(arg) ==
    IF arg.t \in {"string", "error"} THEN String
    ELSE IF arg.t = "bool" THEN Bool
    ELSE arg.t

FromPalette(pal, n) == [i \in 1..n |-> pal[((i - 1) % Len(pal)) + 1]]

Mixed(n) == FromPalette(MixedPalette, n)

\* Arguments of other values, with other strings, at the same positions.
OtherPalette ==
    << GoText("error", <<122>>), GoInt("int", 4), GoBool(FALSE),
       GoInt("int8", 1), GoText("string", <<120, 121>>) >>

\* The argument lists goroutines that fire a probe of n arguments at the
\* same time pass: two lists of supported values and one that ends in an
\* unsupported value.
ConcurrentArgs(n) ==
    { Mixed(n), FromPalette(OtherPalette, n) }
    \cup { [Mixed(n) EXCEPT ![j] = Unsupported] : j \in {n} \ {0} }

\* Argument lists of length n that fireImpl looks into: supported values
\* only (two lists), unsupported values only, and one unsupported value at
\* each position among supported ones.
Variants(n) ==
    { Mixed(n), FromPalette(PlainPalette, n), [i \in 1..n |-> Unsupported] }
    \cup { [Mixed(n) EXCEPT ![j] = Unsupported] : j \in 1..n }
    \cup { [Mixed(n) EXCEPT ![j] = Float] : j \in {n} \cap {1, 3} }

\* The argument lists a caller passes to Fire on the probe p: one list of
\* every length 0..MaxArgs, and every variant of the lengths the probe was
\* declared with and records.
FireArgs(p) ==
    { Mixed(n) : n \in 0..MaxArgs }
    \cup Variants(p.argCount) \cup Variants(p.declared)

AllSupported(args) == \A i \in 1..Len(args) : args[i].t \in SupportedTypes

-----------------------------------------------------------------------------
(* Slots.  An unsafe.Pointer is 8 bytes, least significant first; a slot   *)
(* holds either an integer stored by value or the address of a C buffer.   *)

\* uintptr(v): the 64-bit two's complement of the integer v (sign-extended
\* when v is negative, zero-extended otherwise).
Bytes64_ZeroExtended(v) ==
    [j \in 1..8 |-> IF j <= 4 THEN (v \div (256 ^ (j - 1))) % 256 ELSE 0]

Bytes64(v) ==
    [j \in 1..8 |-> IF j <= 4 THEN (v \div (256 ^ (j - 1))) % 256
                    ELSE IF v < 0 THEN 255 ELSE 0]

ValSlot(v) == [kind |-> "val", bytes |-> Bytes64(v), buf |-> 0]
PtrSlot(id) == [kind |-> "ptr", bytes |-> <<>>, buf |-> id]

\* ba := [6]unsafe.Pointer{}: six nil pointers.
ZeroArray == [i \in 1..MAX_ARGUMENTS |-> ValSlot(0)]

-----------------------------------------------------------------------------
(* The C heap: the live buffers, by address.                               *)

\* malloc: an address that is not live.
FreshBuf(h) == CHOOSE id \in 1..(Cardinality(DOMAIN h) + 1) : id \notin DOMAIN h

Alloc(h, bytes) == [id \in DOMAIN h \cup {FreshBuf(h)} |->
                        IF id \in DOMAIN h THEN h[id] ELSE bytes]

Release(h, id) == [x \in DOMAIN h \ {id} |-> h[x]]

-----------------------------------------------------------------------------
(* Probe.fireImpl: the marshalling loop.  st holds the locals: the slot    *)
(* array ba, the indices of ba it assigned (counted from 1), the deferred  *)
(* frees in the order they were registered, the                            *)
(* heap, and how the loop ended: "run" while it runs, "abort" on the       *)
(* default case, "panic" on an index past the array.                       *)

MarshalStart(h) ==
    [ba |-> ZeroArray, written |-> {}, defers |-> <<>>, heap |-> h,
     status |-> "run"]

\* One iteration of the loop: the type switch on args[i] (i counts from 1).
MarshalArg_NoDefault(st, arg, i) ==
    IF i > MAX_ARGUMENTS THEN [st EXCEPT !.status = "panic"]
    ELSE IF arg.t = "bool"
         THEN [st EXCEPT !.ba[i] = ValSlot(IF arg.b THEN 1 ELSE 0),
                         !.written = @ \cup {i}]
    ELSE IF arg.t \in IntTypes
         THEN [st EXCEPT !.ba[i] = ValSlot(arg.n),
                         !.written = @ \cup {i}]
    ELSE IF arg.t \in {"string", "error"}
         THEN LET id == FreshBuf(st.heap)
              IN [st EXCEPT !.heap = Alloc(st.heap, CString(arg.s)),
                            !.defers = Append(st.defers, id),
                            !.ba[i] = PtrSlot(id),
                            !.written = @ \cup {i}]
    ELSE st

MarshalArg_BoolAllOnes(st, arg, i) ==
    IF i > MAX_ARGUMENTS THEN [st EXCEPT !.status = "panic"]
    ELSE IF arg.t = "bool"
         THEN [st EXCEPT !.ba[i] = ValSlot(IF arg.b THEN 255 ELSE 0),
                         !.written = @ \cup {i}]
    ELSE IF arg.t \in IntTypes
         THEN [st EXCEPT !.ba[i] = ValSlot(arg.n),
                         !.written = @ \cup {i}]
    ELSE IF arg.t \in {"string", "error"}
         THEN LET id == FreshBuf(st.heap)
              IN [st EXCEPT !.heap = Alloc(st.heap, CString(arg.s)),
                            !.defers = Append(st.defers, id),
                            !.ba[i] = PtrSlot(id),
                            !.written = @ \cup {i}]
    ELSE [st EXCEPT !.status = "abort"]

MarshalArg(st, arg, i) ==
    IF i > MAX_ARGUMENTS THEN [st EXCEPT !.status = "panic"]
    ELSE IF arg.t = "bool"
         THEN [st EXCEPT !.ba[i] = ValSlot(IF arg.b THEN 1 ELSE 0),
                         !.written = @ \cup {i}]
    ELSE IF arg.t \in IntTypes
         THEN [st EXCEPT !.ba[i] = ValSlot(arg.n),
                         !.written = @ \cup {i}]
    ELSE IF arg.t \in {"string", "error"}
         THEN LET id == FreshBuf(st.heap)
              IN [st EXCEPT !.heap = Alloc(st.heap, CString(arg.s)),
                            !.defers = Append(st.defers, id),
                            !.ba[i] = PtrSlot(id),
                            !.written = @ \cup {i}]
    ELSE [st EXCEPT !.status = "abort"]

RECURSIVE MarshalLoop(_, _, _)
MarshalLoop(st, args, i) ==
    IF i > Len(args) \/ st.status # "run" THEN st
    ELSE MarshalLoop(MarshalArg(st, args[i], i), args, i + 1)

-----------------------------------------------------------------------------
(* salp_probeFire: the calls of the native probeFire it makes, each with   *)
(* the slots it passes.  What the native side reads through a slot is      *)
(* recorded with it: the bytes of the buffer a pointer slot addresses, or  *)
(* "dangling" when that buffer is no longer live.                          *)

Seen(slot, h) ==
    IF slot.kind = "val" THEN [kind |-> "val", bytes |-> slot.bytes]
    ELSE IF slot.buf \in DOMAIN h THEN [kind |-> "cstr", bytes |-> h[slot.buf]]
    ELSE [kind |-> "dangling", bytes |-> <<>>]

salp_probeFire(p, ba, h) ==
    IF p.argCount \in 0..MAX_ARGUMENTS
    THEN << [i \in 1..p.argCount |-> Seen(ba[i], h)] >>
    ELSE <<>>

-----------------------------------------------------------------------------
(* The native structures.                                                  *)

\* A nil error, and the stapsdtError Provider.err builds from the provider.
NilError == [nil |-> TRUE, code |-> 0, msg |-> <<>>]

err_NoCode(pv) == [nil |-> FALSE, code |-> 0, msg |-> GoString(pv.error)]

err(pv) == [nil |-> FALSE, code |-> pv.errno, msg |-> GoString(pv.error)]

\* An operation that returns nothing (or a nil error): op names it, types
\* is the number of argument types an AddProbe was given, before and was
\* are the number of probes and the provider's state when it was called,
\* snap the probes as they were then, and native lists the calls into the
\* native library it made.
Returned(op) ==
    [op |-> op, types |-> 0, before |-> Len(probes), was |-> provider.state,
     snap |-> probes, native |-> <<>>, probe |-> 0, err |-> NilError]

\* The failures the native providerLoad reports: an error code and message.
NativeLoadErrors == { [errno |-> 2, error |-> CString(<<100, 108>>)] }

\* No Fire call was made since the caller's last lifecycle operation.  Of
\* a Fire call: the probe pr and arguments args, what Enabled returned in
\* its test, the locals ba and defers of fireImpl, the addresses freed as
\* it returned, the native probeFire calls made, whether a tracer watched
\* the probe at that call, and the provider and probes as the call began.
Idle ==
    [pc |-> "idle", pr |-> 0, args |-> <<>>, enabled |-> FALSE,
     ba |-> ZeroArray, written |-> {}, defers |-> <<>>, freed |-> <<>>,
     badfree |-> FALSE,
     fired |-> <<>>, watched |-> FALSE, panicked |-> FALSE,
     snap |-> <<>>]

InFlight == call.pc \in {"impl", "native", "return"}

\* NewProvider(name): providerInit copies the name; nothing is loaded.
\* given is the name the caller passed (kept for the properties).
NewProvider(name) ==
    /\ provider = [name |-> NativeCopy(CString(name)), given |-> name,
                   errno |-> 0, error |-> <<>>, state |-> "Unloaded"]
    /\ probes = <<>>
    /\ mem = <<>>
    /\ attached = {}
    /\ heap = <<>>
    /\ call = Idle
    /\ peer = Idle
    /\ ret = [op |-> "NewProvider", types |-> 0, before |-> 0,
              was |-> "Unloaded", snap |-> <<>>,
              native |-> <<"providerInit">>, probe |-> 0, err |-> NilError]
    /\ history = "fresh"

Init == \E name \in ProviderNames : NewProvider(name)

ProviderName_Error == GoString(provider.error)

\* Provider.Name
ProviderName == GoString(provider.name)

ProbeName_Provider(p) == ProviderName

\* Probe.Name
ProbeName(p) == GoString(p.name)

-----------------------------------------------------------------------------
(* AddProbe.                                                               *)

\* The cgo wrapper: the argument count it hands to the native
\* providerAddProbe for c argument types, or -1 where it returns NULL
\* without calling it.
salp_providerAddProbe_Default(c) ==
    IF c \in 0..5 THEN c
    ELSE 5

salp_providerAddProbe(c) ==
    IF c \in 0..5 THEN c
    ELSE IF c = 6 THEN 5
    ELSE -1

\* The SDTProbe_t the native providerAddProbe builds from the count and the
\* variadic tags it is given: the first argCount tags, then noarg; _fire is
\* NULL until the provider is loaded.  given and declared are the name
\* and the number of types the caller of AddProbe passed (kept for the
\* properties, not read by the code).
NewProbe(name, cname, argCount, at) ==
    [name |-> NativeCopy(cname), given |-> name,
     declared |-> Len(at), argCount |-> argCount,
     argFmt |-> [i \in 1..MAX_ARGUMENTS |->
                    IF i <= argCount /\ i <= Len(at) THEN at[i] ELSE noarg],
     fire |-> 0]

AddProbe(name, argTypes) ==
    /\ provider.state = "Unloaded"
    /\ ~InFlight
    /\ Len(probes) < MaxProbes
    /\ LET cname == CString(name)
           n == salp_providerAddProbe(Len(argTypes))
       IN IF n = -1
          THEN /\ ret' = [Returned("AddProbe") EXCEPT
                             !.types = Len(argTypes), !.err = err(provider)]
               /\ probes' = probes
          ELSE /\ probes' = Append(probes, NewProbe(name, cname, n, argTypes))
               /\ ret' = [Returned("AddProbe") EXCEPT
                             !.types = Len(argTypes),
                             !.native = <<"providerAddProbe">>,
                             !.probe = Len(probes) + 1]
    /\ call' = Idle
    /\ UNCHANGED <<provider, mem, attached, heap, history>>
    /\ UNCHANGED peer

-----------------------------------------------------------------------------
(* Load, Unload, Dispose.                                                  *)

\* providerLoad succeeded: every probe's _fire addresses its trampoline in
\* the freshly mapped shared object, which starts with a no-op.
Loaded(ps) == [i \in 1..Len(ps) |-> [ps[i] EXCEPT !.fire = i]]

Load_FailureLoads ==
    /\ provider.state = "Unloaded"
    /\ ~InFlight
    /\ provider' = [provider EXCEPT !.state = "Loaded"]
    /\ probes' = Loaded(probes)
    /\ mem' = [i \in 1..Len(probes) |-> NopByte]
    /\ \/ ret' = [Returned("Load") EXCEPT !.native = <<"providerLoad">>]
       \/ \E e \in NativeLoadErrors :
             ret' = [Returned("Load") EXCEPT !.native = <<"providerLoad">>,
                                             !.err = err(e)]
    /\ history' = "loaded"
    /\ call' = Idle
    /\ UNCHANGED <<attached, heap>>
    /\ UNCHANGED peer

Load ==
    /\ provider.state = "Unloaded"
    /\ ~InFlight
    /\ \/ /\ provider' = [provider EXCEPT !.state = "Loaded"]
          /\ probes' = Loaded(probes)
          /\ mem' = [i \in 1..Len(probes) |-> NopByte]
          /\ ret' = [Returned("Load") EXCEPT !.native = <<"providerLoad">>]
          /\ history' = "loaded"
       \/ \E e \in NativeLoadErrors :
             /\ provider' = [provider EXCEPT !.errno = e.errno, !.error = e.error]
             /\ ret' = [Returned("Load") EXCEPT !.native = <<"providerLoad">>,
                                                !.err = err(provider')]
             /\ UNCHANGED <<probes, mem, history>>
    /\ call' = Idle
    /\ UNCHANGED <<attached, heap>>
    /\ UNCHANGED peer

\* providerUnload: nothing to do when no shared object is loaded; otherwise
\* every _fire is reset to NULL and the shared object is unmapped, which
\* takes the tracer's breakpoints with it.
Unloaded(ps) == [i \in 1..Len(ps) |-> [ps[i] EXCEPT !.fire = 0]]

Unload_Skipped ==
    /\ provider.state \in {"Unloaded", "Loaded"}
    /\ ~InFlight
    /\ history' = IF provider.state # "Loaded" THEN history
                  ELSE IF attached = {} THEN "unloaded" ELSE "detached"
    /\ call' = Idle
    /\ ret' = Returned("Unload")
    /\ UNCHANGED <<provider, probes, mem, attached, heap>>
    /\ UNCHANGED peer

Unload_ClearsProbes ==
    /\ provider.state \in {"Unloaded", "Loaded"}
    /\ ~InFlight
    /\ provider' = [provider EXCEPT !.state = "Unloaded"]
    /\ probes' = <<>>
    /\ mem' = <<>>
    /\ attached' = {}
    /\ history' = IF provider.state # "Loaded" THEN history
                  ELSE IF attached = {} THEN "unloaded" ELSE "detached"
    /\ call' = Idle
    /\ ret' = [Returned("Unload") EXCEPT !.native = <<"providerUnload">>]
    /\ UNCHANGED heap
    /\ UNCHANGED peer

Unload ==
    /\ provider.state \in {"Unloaded", "Loaded"}
    /\ ~InFlight
    /\ IF provider.state = "Loaded"
       THEN /\ provider' = [provider EXCEPT !.state = "Unloaded"]
            /\ probes' = Unloaded(probes)
            /\ mem' = <<>>
            /\ attached' = {}
            /\ history' = IF attached = {} THEN "unloaded" ELSE "detached"
       ELSE UNCHANGED <<provider, probes, mem, attached, history>>
    /\ call' = Idle
    /\ ret' = [Returned("Unload") EXCEPT !.native = <<"providerUnload">>]
    /\ UNCHANGED heap
    /\ UNCHANGED peer

\* Unload called by another goroutine while a Fire call is between its
\* test and its return: nothing in Fire or Unload waits for the other.
UnloadDuringFire ==
    /\ provider.state = "Loaded"
    /\ InFlight
    /\ provider' = [provider EXCEPT !.state = "Unloaded"]
    /\ probes' = Unloaded(probes)
    /\ mem' = <<>>
    /\ attached' = {}
    /\ history' = IF attached = {} THEN "unloaded" ELSE "detached"
    /\ ret' = [Returned("Unload") EXCEPT !.native = <<"providerUnload">>]
    /\ UNCHANGED <<heap, call, peer>>

\* providerDestroy: the provider and its probes are freed.
Dispose ==
    /\ provider.state \in {"Unloaded", "Loaded"}
    /\ ~InFlight
    /\ provider' = [provider EXCEPT !.state = "Disposed"]
    /\ probes' = <<>>
    /\ call' = Idle
    /\ ret' = [Returned("Dispose") EXCEPT !.native = <<"providerDestroy">>]
    /\ UNCHANGED <<mem, attached, heap, history>>
    /\ UNCHANGED peer

UnloadAndDispose_DisposeOnly ==
    /\ provider.state \in {"Unloaded", "Loaded"}
    /\ ~InFlight
    /\ provider' = [provider EXCEPT !.state = "Disposed"]
    /\ probes' = <<>>
    /\ call' = Idle
    /\ ret' = [Returned("UnloadAndDispose") EXCEPT
                  !.native = <<"providerDestroy">>]
    /\ UNCHANGED <<mem, attached, heap, history>>
    /\ UNCHANGED peer

\* UnloadAndDispose: p.Unload() and then p.Dispose().
UnloadAndDispose ==
    /\ provider.state \in {"Unloaded", "Loaded"}
    /\ ~InFlight
    /\ provider' = [provider EXCEPT !.state = "Disposed"]
    /\ probes' = <<>>
    /\ IF provider.state = "Loaded"
       THEN /\ mem' = <<>>
            /\ attached' = {}
            /\ history' = IF attached = {} THEN "unloaded" ELSE "detached"
       ELSE UNCHANGED <<mem, attached, history>>
    /\ call' = Idle
    /\ ret' = [Returned("UnloadAndDispose") EXCEPT
                  !.native = <<"providerUnload", "providerDestroy">>]
    /\ UNCHANGED heap
    /\ UNCHANGED peer

-----------------------------------------------------------------------------
(* The external tracer.  Attaching to a probe of the loaded shared object  *)
(* replaces the first byte of its trampoline by a breakpoint instruction;  *)
(* detaching restores the no-op.                                           *)

\* The x86 breakpoint instruction (int3, 0xCC) a tracer patches in.
BreakpointBytes == {204}

ObserverAttach(i) ==
    /\ i \in DOMAIN mem
    /\ i \notin attached
    /\ \E b \in BreakpointBytes : mem' = [mem EXCEPT ![i] = b]
    /\ attached' = attached \cup {i}
    /\ UNCHANGED <<provider, probes, heap, call, ret, history>>
    /\ UNCHANGED peer

ObserverDetach(i) ==
    /\ i \in attached
    /\ mem' = [mem EXCEPT ![i] = NopByte]
    /\ attached' = attached \ {i}
    /\ UNCHANGED <<provider, probes, heap, call, ret, history>>
    /\ UNCHANGED peer

\* Every value the byte Enabled reads at _fire may have.
TrampolineBytes == 0..255

\* The first byte of the trampoline of probe i becomes b (a tracer is
\* attached when it is not the no-op).
ObserverPatch(i, b) ==
    /\ i \in DOMAIN mem
    /\ mem[i] # b
    /\ mem' = [mem EXCEPT ![i] = b]
    /\ attached' = IF b = NopByte THEN attached \ {i} ELSE attached \cup {i}
    /\ UNCHANGED <<provider, probes, heap, call, ret, history>>
    /\ UNCHANGED peer

-----------------------------------------------------------------------------
(* Enabled.                                                                *)

\* The bitwise and of two bytes.
RECURSIVE BitAnd(_, _)
BitAnd(a, b) ==
    IF a = 0 \/ b = 0 THEN 0
    ELSE 2 * BitAnd(a \div 2, b \div 2) + (IF a % 2 = 1 /\ b % 2 = 1 THEN 1 ELSE 0)

\* The byte at address a (0 where nothing is mapped, which no Enabled of
\* a live probe reads: _fire is NULL whenever the trampoline is unmapped).
Peek(m, a) == IF a \in DOMAIN m THEN m[a] ELSE 0

\* The native probeIsEnabled (0 or 1), and the Enabled that calls it.
probeIsEnabled(p, m) ==
    IF p.fire = 0 THEN 0
    ELSE IF BitAnd(Peek(m, p.fire), NopByte) = NopByte THEN 0
    ELSE 1

EnabledNative(p, m) == probeIsEnabled(p, m) = 1

Enabled_AnyBitSet(p, m) ==
    p.fire # 0 /\ BitAnd(Peek(m, p.fire), NopByte) # 0

Enabled_ExactNop(p, m) == p.fire # 0 /\ Peek(m, p.fire) # NopByte

Enabled_NullIsEnabled(p, m) ==
    p.fire = 0 \/ BitAnd(Peek(m, p.fire), NopByte) # NopByte

Enabled_LoadedOnly(p, m) == p.fire # 0

\* Probe.Enabled: _fire is not NULL and the first byte of the trampoline,
\* masked with 0x90, is not 0x90.
Enabled(p, m) ==
    p.fire # 0 /\ BitAnd(Peek(m, p.fire), NopByte) # NopByte

-----------------------------------------------------------------------------
(* Fire.                                                                   *)

\* The test Fire returns on before doing anything else.
FireReturnsEarly_NoEnabled(p, args) == Len(args) # p.argCount

FireReturnsEarly_NoArity(p, args) == ~Enabled(p, mem)

FireReturnsEarly_TagChecked(p, args) ==
    \/ ~Enabled(p, mem)
    \/ Len(args) # p.argCount
    \/ \E i \in 1..Len(args) : TagOf(args[i]) # p.argFmt[i]

FireReturnsEarly(p, args) ==
    ~Enabled(p, mem) \/ Len(args) # p.argCount

\* Fire is entered with args on probe i: it returns at once, or goes on to
\* fireImpl.
FireCall(i, args) ==
    /\ provider.state \in {"Unloaded", "Loaded"}
    /\ ~InFlight
    /\ i \in 1..Len(probes)
    /\ call' = [Idle EXCEPT !.pr = i, !.args = args,
                            !.snap = <<provider, probes>>,
                            !.enabled = Enabled(probes[i], mem),
                            !.pc = IF FireReturnsEarly(probes[i], args)
                                   THEN "done" ELSE "impl"]
    /\ ret' = Returned("Fire")
    /\ UNCHANGED <<provider, probes, mem, attached, heap, history>>
    /\ UNCHANGED peer

\* fireImpl's loop over the arguments: it ends at the call of
\* salp_probeFire, or returns (or panics) from inside the loop.
FireImpl ==
    /\ call.pc = "impl"
    /\ LET st == MarshalLoop(MarshalStart(heap), call.args, 1)
       IN /\ heap' = st.heap
          /\ call' = [call EXCEPT !.ba = st.ba, !.written = st.written,
                                  !.defers = st.defers,
                                  !.panicked = (st.status = "panic"),
                                  !.pc = IF st.status = "run" THEN "native"
                                         ELSE "return"]
    /\ UNCHANGED <<provider, probes, mem, attached, ret, history>>
    /\ UNCHANGED peer

\* C.salp_probeFire(p, &ba[0]).
FireNative ==
    /\ call.pc = "native"
    /\ call' = [call EXCEPT !.fired = call.fired \o
                                salp_probeFire(probes[call.pr], call.ba, heap),
                            !.watched = (call.pr \in attached),
                            !.pc = "return"]
    /\ UNCHANGED <<provider, probes, mem, attached, heap, ret, history>>
    /\ UNCHANGED peer

\* The deferred C.free calls, last registered first, run as fireImpl
\* returns.  Freeing an address that is not live is recorded in badfree.
RunDefers_FreeAll(h, ds) == [x \in {} |-> <<>>]

RECURSIVE RunDefers(_, _)
RunDefers(h, ds) ==
    IF ds = <<>> THEN h
    ELSE RunDefers(Release(h, ds[Len(ds)]), SubSeq(ds, 1, Len(ds) - 1))

Reverse(sq) == [i \in 1..Len(sq) |-> sq[Len(sq) + 1 - i]]

FireReturn_Leak ==
    /\ call.pc = "return"
    /\ call' = [call EXCEPT !.pc = "done"]
    /\ UNCHANGED <<provider, probes, mem, attached, heap, ret, history>>
    /\ UNCHANGED peer

FireReturn ==
    /\ call.pc = "return"
    /\ heap' = RunDefers(heap, call.defers)
    /\ call' = [call EXCEPT !.freed = Reverse(call.defers),
                            !.badfree = \E k \in 1..Len(call.defers) :
                                           call.defers[k] \notin DOMAIN heap,
                            !.pc = "done"]
    /\ UNCHANGED <<provider, probes, mem, attached, ret, history>>
    /\ UNCHANGED peer

-----------------------------------------------------------------------------
(* Fire called by a second goroutine: the same steps, on its own locals.   *)

PeerFireCall(i, args) ==
    /\ provider.state \in {"Unloaded", "Loaded"}
    /\ peer.pc \in {"idle", "done"}
    /\ i \in 1..Len(probes)
    /\ peer' = [Idle EXCEPT !.pr = i, !.args = args,
                            !.snap = <<provider, probes>>,
                            !.enabled = Enabled(probes[i], mem),
                            !.pc = IF FireReturnsEarly(probes[i], args)
                                   THEN "done" ELSE "impl"]
    /\ UNCHANGED <<provider, probes, mem, attached, heap, call, ret, history>>

PeerFireImpl ==
    /\ peer.pc = "impl"
    /\ LET st == MarshalLoop(MarshalStart(heap), peer.args, 1)
       IN /\ heap' = st.heap
          /\ peer' = [peer EXCEPT !.ba = st.ba, !.written = st.written,
                                  !.defers = st.defers,
                                  !.panicked = (st.status = "panic"),
                                  !.pc = IF st.status = "run" THEN "native"
                                         ELSE "return"]
    /\ UNCHANGED <<provider, probes, mem, attached, call, ret, history>>

PeerFireNative ==
    /\ peer.pc = "native"
    /\ peer' = [peer EXCEPT !.fired = peer.fired \o
                                salp_probeFire(probes[peer.pr], peer.ba, heap),
                            !.watched = (peer.pr \in attached),
                            !.pc = "return"]
    /\ UNCHANGED <<provider, probes, mem, attached, heap, call, ret, history>>

PeerFireReturn ==
    /\ peer.pc = "return"
    /\ heap' = RunDefers(heap, peer.defers)
    /\ peer' = [peer EXCEPT !.freed = Reverse(peer.defers),
                            !.badfree = \E k \in 1..Len(peer.defers) :
                                           peer.defers[k] \notin DOMAIN heap,
                            !.pc = "done"]
    /\ UNCHANGED <<provider, probes, mem, attached, call, ret, history>>

-----------------------------------------------------------------------------
(* The specification.                                                      *)

Next ==
    \/ \E in \in AddProbeInputs(Len(probes) + 1) : AddProbe(in[1], ArgTypes(in[2]))
    \/ Load
    \/ Unload
    \/ Dispose
    \/ UnloadAndDispose
    \/ \E i \in 1..MaxProbes : ObserverAttach(i)
    \/ \E i \in 1..MaxProbes : ObserverDetach(i)
    \/ \E i \in 1..Len(probes) : \E args \in FireArgs(probes[i]) : FireCall(i, args)
    \/ FireImpl
    \/ FireNative
    \/ FireReturn

Spec == Init /\ [][Next]_vars

\* A provider and probes of any names, each probe taking one argument.
InitNames == \E name \in NameInputs : NewProvider(name)

NextNames ==
    \/ \E name \in ProbeNameInputs : AddProbe(name, ArgTypes(1))
    \/ Load
    \/ Unload
    \/ Dispose
    \/ \E i \in 1..MaxProbes : ObserverAttach(i)
    \/ \E i \in 1..MaxProbes : ObserverDetach(i)
    \/ \E i \in 1..Len(probes) : FireCall(i, Mixed(probes[i].argCount))
    \/ FireImpl
    \/ FireNative
    \/ FireReturn

SpecNames == InitNames /\ [][NextNames]_vars

\* The numbers of argument types of the probe goroutines fire together.
ConcurrentTypes == {0, 2, 5}

\* One probe is added and the provider loaded; then two goroutines fire
\* the probe, each call at its own pace, while a tracer comes and goes.
\* Nothing unloads or disposes of the provider.
NextConcurrent ==
    \/ /\ probes = <<>>
       /\ \E k \in ConcurrentTypes : AddProbe(<<98, 97, 114>>, ArgTypes(k))
    \/ Load
    \/ \E i \in 1..MaxProbes : ObserverAttach(i)
    \/ \E i \in 1..MaxProbes : ObserverDetach(i)
    \/ \E i \in 1..Len(probes) :
          \E args \in ConcurrentArgs(probes[i].argCount) : FireCall(i, args)
    \/ FireImpl
    \/ FireNative
    \/ FireReturn
    \/ \E i \in 1..Len(probes) :
          \E args \in ConcurrentArgs(probes[i].argCount) : PeerFireCall(i, args)
    \/ PeerFireImpl
    \/ PeerFireNative
    \/ PeerFireReturn

SpecConcurrent == Init /\ [][NextConcurrent]_vars

\* One probe of one argument is added, loaded and watched, and fired with
\* an integer.
NextInts ==
    \/ /\ probes = <<>>
       /\ AddProbe(<<98, 97, 114>>, ArgTypes(1))
    \/ Load
    \/ Unload
    \/ \E i \in 1..MaxProbes : ObserverAttach(i)
    \/ \E i \in 1..MaxProbes : ObserverDetach(i)
    \/ \E i \in 1..Len(probes) : \E v \in IntInputs : FireCall(i, <<v>>)
    \/ FireImpl
    \/ FireNative
    \/ FireReturn

SpecInts == Init /\ [][NextInts]_vars

\* A probe is fired while a tracer comes and goes and while another
\* goroutine may unload the provider.
NextRace ==
    \/ /\ probes = <<>>
       /\ \E k \in {0, 1, 2} : AddProbe(<<98, 97, 114>>, ArgTypes(k))
    \/ Load
    \/ Unload
    \/ UnloadDuringFire
    \/ \E i \in 1..MaxProbes : ObserverAttach(i)
    \/ \E i \in 1..MaxProbes : ObserverDetach(i)
    \/ \E i \in 1..Len(probes) : FireCall(i, Mixed(probes[i].argCount))
    \/ FireImpl
    \/ FireNative
    \/ FireReturn

SpecRace == Init /\ [][NextRace]_vars

\* Probes of two arguments, declared with different tags, are fired with
\* the same argument lists.
NextTags ==
    \/ /\ Len(probes) < 2
       /\ \E name \in ProbeNames : \E at \in TagLists : AddProbe(name, at)
    \/ Load
    \/ Unload
    \/ \E i \in 1..MaxProbes : ObserverAttach(i)
    \/ \E i \in 1..MaxProbes : ObserverDetach(i)
    \/ \E i \in 1..Len(probes) : \E args \in TagArgs : FireCall(i, args)
    \/ FireImpl
    \/ FireNative
    \/ FireReturn

SpecTags == Init /\ [][NextTags]_vars

\* A provider whose first probe's trampoline may start with any byte.
NextPatch ==
    \/ \E name \in ProbeNames : AddProbe(name, ArgTypes(0))
    \/ Load
    \/ Unload
    \/ \E b \in TrampolineBytes : ObserverPatch(1, b)

SpecPatch == Init /\ [][NextPatch]_vars

-----------------------------------------------------------------------------
(* Properties.                                                             *)

TypeOK ==
    /\ provider.state \in {"Unloaded", "Loaded", "Disposed"}
    /\ Len(probes) <= MaxProbes
    /\ \A i \in 1..Len(probes) : probes[i].fire \in {0} \cup DOMAIN mem
    /\ attached \subseteq DOMAIN mem
    /\ call.pc \in {"idle", "impl", "native", "return", "done"}
    /\ call.pc # "idle" => call.pr \in 1..Len(probes)
    /\ history \in {"fresh", "loaded", "unloaded", "detached"}

\* The probe of the Fire call in call.
Fired == probes[call.pr]

HasUnsupported(args) == \E i \in 1..Len(args) : args[i].t \notin SupportedTypes

HasText(args) == \E i \in 1..Len(args) : args[i].t \in {"string", "error"}

\* What a tracer is to read in the slot of the argument arg.
Expected(arg) ==
    IF arg.t \in {"string", "error"}
    THEN [kind |-> "cstr", bytes |-> arg.s \o <<0>>]
    ELSE IF arg.t = "bool"
    THEN [kind |-> "val", bytes |-> IF arg.b THEN <<1, 0, 0, 0, 0, 0, 0, 0>>
                                    ELSE <<0, 0, 0, 0, 0, 0, 0, 0>>]
    ELSE [kind |-> "val", bytes |-> Bytes64(arg.n)]

\* C1: on an Unloaded provider AddProbe with exactly 6 argument types returns
\* a probe and no error and registers that probe; AddProbe with 7 argument
\* types returns an error and no probe and registers none.
C1_AddProbeLimit ==
    ret.op = "AddProbe" =>
        /\ ret.types = 6 =>
              /\ ret.err.nil
              /\ ret.probe = ret.before + 1
              /\ Len(probes) = ret.before + 1
              /\ probes[ret.probe].declared = 6
        /\ ret.types = 7 =>
              /\ ~ret.err.nil
              /\ ret.probe = 0
              /\ Len(probes) = ret.before

C1_Witness ==
    /\ ret.op = "AddProbe" /\ ret.types = 7 /\ ~ret.err.nil
    /\ Len(probes) = 1 /\ probes[1].declared = 6
    /\ provider.state = "Unloaded"

\* C2: a probe added with k argument types, k in 0..6, records the argument
\* count k, and while it is enabled a Fire with supported arguments calls
\* the native probeFire exactly when it is given k arguments.
C2_AcceptsDeclaredCount ==
    /\ \A i \in 1..Len(probes) : probes[i].argCount = probes[i].declared
    /\ (call.pc = "done" /\ call.enabled /\ AllSupported(call.args)) =>
          (Len(call.fired) = 1 <=> Len(call.args) = Fired.declared)

\* C3: a Fire on a probe that is not enabled, with supported arguments of
\* the declared count, returns from its first test: the native probeFire is
\* not called and no C buffer is allocated.
C3_DisabledFireIsNoOp ==
    ( /\ call.pc # "idle"
      /\ ~call.enabled
      /\ Len(call.args) \in {Fired.declared, Fired.argCount}
      /\ AllSupported(call.args) ) =>
        /\ call.pc = "done"
        /\ call.fired = <<>>
        /\ call.defers = <<>>
        /\ heap = <<>>

C3_Witness ==
    /\ call.pc = "done" /\ ~call.enabled
    /\ Len(call.args) = Fired.argCount /\ Len(call.args) = Fired.declared
    /\ AllSupported(call.args) /\ HasText(call.args)
    /\ provider.state = "Loaded" /\ history = "loaded"

\* C4: a Fire with a number of arguments other than the number of argument
\* types the probe was declared with never calls the native probeFire,
\* allocates nothing and raises nothing, whatever the provider's state and
\* whether or not a tracer is attached.
C4_WrongArityIsNoOp ==
    (call.pc # "idle" /\ Len(call.args) # Fired.declared) =>
        /\ call.pc = "done"
        /\ call.fired = <<>>
        /\ call.defers = <<>>
        /\ heap = <<>>
        /\ ~call.panicked
        /\ ret.err.nil

\* C5: a Fire with at least one argument of an unsupported runtime type
\* never calls the native probeFire, raises no error and no panic, and leaves
\* the provider and its probes as they were.
C5_UnsupportedAborts ==
    (call.pc # "idle" /\ HasUnsupported(call.args)) =>
        /\ call.pc # "native"
        /\ call.fired = <<>>
        /\ ~call.panicked
        /\ ret.err.nil
        /\ <<provider, probes>> = call.snap

C5_Witness ==
    /\ call.pc = "done" /\ call.enabled
    /\ Len(call.args) = Fired.argCount
    /\ call.args[1].t = "string"
    /\ call.args[Len(call.args)].t \notin SupportedTypes
    /\ call.defers # <<>>
    /\ call.fired = <<>>

\* C6: a Fire that calls the native probeFire on a probe declared with k
\* argument types calls it once, with k slots, slot i carrying the value of
\* argument i.
C6_FiresDeclaredSlots ==
    (call.pc = "done" /\ call.fired # <<>>) =>
        /\ Len(call.fired) = 1
        /\ Len(call.fired[1]) = Fired.declared
        /\ Len(call.args) = Fired.declared
        /\ \A i \in 1..Len(call.fired[1]) :
              i <= Len(call.args) /\ call.fired[1][i] = Expected(call.args[i])

\* C7: every C buffer a Fire call allocates is live while the native
\* probeFire runs and until fireImpl returns, is freed exactly once as it
\* returns, on the normal path and on the abort path, and none is left
\* when no call is in progress.
C7_BuffersReleasedOnce ==
    /\ call.pc \in {"idle", "done"} => heap = <<>>
    /\ call.pc \in {"native", "return"} =>
          /\ \A k \in 1..Len(call.defers) : call.defers[k] \in DOMAIN heap
          /\ Cardinality(DOMAIN heap) = Len(call.defers)
    /\ call.pc = "done" =>
          /\ ~call.badfree
          /\ Len(call.freed) = Len(call.defers)
          /\ \A k \in 1..Len(call.defers) :
                Cardinality({j \in 1..Len(call.freed) :
                                call.freed[j] = call.defers[k]}) = 1
          /\ \A k \in 1..Len(call.fired) : \A i \in 1..Len(call.fired[k]) :
                call.fired[k][i].kind # "dangling"
    /\ call.pc \in {"native", "return"} =>
          Len(call.defers) =
             Cardinality({i \in 1..Len(call.args) :
                            /\ call.args[i].t \in {"string", "error"}
                            /\ \A j \in 1..i : call.args[j].t \in SupportedTypes})

C7_Witness ==
    /\ call.pc = "done"
    /\ Len(call.freed) = 2
    /\ call.fired # <<>>
    /\ heap = <<>>

\* C8: Enabled returns false for every probe as long as the provider has
\* never been loaded.
C8_DisabledBeforeLoad ==
    history = "fresh" => \A i \in 1..Len(probes) : ~Enabled(probes[i], mem)

C8_Witness ==
    /\ history = "fresh" /\ Len(probes) = 2
    /\ provider.state = "Unloaded"
    /\ ret.op = "Load" /\ ~ret.err.nil

\* C9: Enabled returns true for a probe exactly when the provider is Loaded
\* and a tracer is attached to that very probe.
C9_EnabledIffLoadedAndObserved ==
    \A i \in 1..Len(probes) :
        Enabled(probes[i], mem) <=> (provider.state = "Loaded" /\ i \in attached)

C9_Witness ==
    /\ provider.state = "Loaded" /\ Len(probes) = 2 /\ attached = {2}
    /\ Enabled(probes[2], mem) /\ ~Enabled(probes[1], mem)

\* C10: once Unload has returned on a Loaded provider, Enabled is false for
\* every probe, also for those a tracer was attached to, until the provider
\* is loaded again.
C10_DisabledAfterUnload ==
    history \in {"unloaded", "detached"} =>
        \A i \in 1..Len(probes) : ~Enabled(probes[i], mem)

C10_Witness ==
    /\ history = "detached" /\ provider.state = "Unloaded"
    /\ Len(probes) = 2 /\ call.pc = "done"

\* C11: a Load whose native load failed returns a non-nil error with the
\* error code and message the native library left on the provider, leaves
\* the provider Unloaded and enables none of its probes; a Load whose
\* native load succeeded returns nil and leaves the provider Loaded.
C11_LoadReportsNativeError ==
    ret.op = "Load" =>
        /\ ret.native = <<"providerLoad">>
        /\ ret.err.nil <=> provider.state = "Loaded"
        /\ ~ret.err.nil =>
              /\ \E e \in NativeLoadErrors :
                    /\ ret.err.code = e.errno
                    /\ CString(ret.err.msg) = e.error
              /\ ret.err.code = provider.errno
              /\ ret.err.msg = GoString(provider.error)
              /\ provider.state = "Unloaded"
              /\ Len(probes) = ret.before
              /\ \A i \in 1..Len(probes) : ~Enabled(probes[i], mem)

\* A Load failed on a provider with two probes that a tracer had watched
\* while it was loaded before.
C11_Witness ==
    /\ ret.op = "Load"
    /\ ~ret.err.nil
    /\ history = "detached"
    /\ Len(probes) = 2

\* C12: the error of an AddProbe that was given more than 6 argument types
\* carries a code and message the native library set for this failure: it
\* is not empty, and it is not what a failed Load left on the provider.
C12_ErrorIsOfThisFailure ==
    (ret.op = "AddProbe" /\ ret.types > MAX_ARGUMENTS) =>
        /\ ~ret.err.nil
        /\ ret.native # <<>>
        /\ ret.err.msg # <<>>
        /\ \A e \in NativeLoadErrors : ret.err # err(e)

\* What a step does to the provider's lifecycle state.
C13_Step ==
    LET s == provider.state
        t == provider'.state
    IN  /\ s = "Disposed" => t = "Disposed"
        /\ s # t =>
              \/ s = "Unloaded" /\ t = "Loaded"
                    /\ ret'.op = "Load" /\ ret'.err.nil
              \/ s = "Loaded" /\ t = "Unloaded" /\ ret'.op = "Unload"
              \/ t = "Disposed" /\ ret'.op \in {"Dispose", "UnloadAndDispose"}
        /\ (\E in \in AddProbeInputs(Len(probes) + 1) :
                AddProbe(in[1], ArgTypes(in[2])))
              => s = "Unloaded" /\ t = "Unloaded"
        /\ Load => IF ret'.err.nil THEN s = "Unloaded" /\ t = "Loaded"
                                   ELSE s = "Unloaded" /\ t = "Unloaded"
        /\ Unload => t = "Unloaded"
        /\ (Dispose \/ UnloadAndDispose) => t = "Disposed"

C14_UnloadThenDestroyOnce ==
    (ret.op = "UnloadAndDispose" /\ ret.was = "Loaded") =>
        /\ ret.native = <<"providerUnload", "providerDestroy">>
        /\ provider.state = "Disposed"
        /\ probes = <<>>
        /\ mem = <<>>
        /\ attached = {}

\* UnloadAndDispose ran on a Loaded provider with a watched probe.
C14_Witness ==
    /\ ret.op = "UnloadAndDispose"
    /\ ret.was = "Loaded"
    /\ history = "detached"
    /\ Len(ret.snap) = 2

\* C15: Unload on a provider that is already Unloaded returns without an
\* error and leaves the provider Unloaded with the probes it had; the
\* Dispose that follows it destroys the provider once.
C15_UnloadWhenUnloaded ==
    /\ (ret.op = "Unload" /\ ret.was = "Unloaded") =>
          /\ ret.err.nil
          /\ ret.native = <<"providerUnload">>
          /\ provider.state = "Unloaded"
          /\ probes = ret.snap
    /\ (ret.op = "UnloadAndDispose" /\ ret.was = "Unloaded") =>
          /\ ret.native = <<"providerUnload", "providerDestroy">>
          /\ provider.state = "Disposed"
          /\ probes = <<>>
    /\ ret.op = "Dispose" =>
          /\ ret.native = <<"providerDestroy">>
          /\ provider.state = "Disposed"
          /\ probes = <<>>

\* Unload returned on a provider with two probes that was never loaded.
C15_Witness ==
    /\ ret.op = "Unload"
    /\ ret.was = "Unloaded"
    /\ history = "fresh"
    /\ Len(probes) = 2

NoNul(name) == \A i \in 1..Len(name) : name[i] # 0

\* C17 as stated: until the provider is disposed of, Name returns exactly
\* the name the provider was created with.
C17_NameIsGiven ==
    provider.state # "Disposed" => ProviderName = provider.given

\* C17: until the provider is disposed of, Name returns exactly the name N
\* the provider was created with when N holds no NUL byte, whatever
\* AddProbe, Load, Unload and Fire calls were made.
C17_NameIsGivenWithoutNul ==
    (provider.state # "Disposed" /\ NoNul(provider.given)) =>
        ProviderName = provider.given

\* A provider with a NUL-free name and a probe of another name was loaded
\* and unloaded, loaded again, and the probe fired.
C17_Witness ==
    /\ NoNul(provider.given)
    /\ provider.given # <<>>
    /\ history = "loaded"
    /\ Len(probes) >= 1
    /\ call.pc = "done"
    /\ call.fired # <<>>
    /\ probes[call.pr].given # provider.given

\* C18 as stated: Name of a probe returns exactly the name the probe was
\* added with.
C18_ProbeNameIsGiven ==
    \A i \in 1..Len(probes) : ProbeName(probes[i]) = probes[i].given

\* C18: Name of a probe returns exactly the name M the probe was added
\* with when M holds no NUL byte, whatever the provider's name, the other
\* probes and the Load, Unload and Fire calls made.
C18_ProbeNameIsGivenWithoutNul ==
    \A i \in 1..Len(probes) :
        NoNul(probes[i].given) => ProbeName(probes[i]) = probes[i].given

\* Two probes of different NUL-free names, one of them the provider's
\* own name; the provider is loaded and a probe fired.
C18_Witness ==
    /\ Len(probes) = 2
    /\ NoNul(probes[1].given)
    /\ NoNul(probes[2].given)
    /\ probes[1].given # provider.given
    /\ \E i \in 1..2 : probes[i].given = provider.given
    /\ provider.state = "Loaded"
    /\ call.pc = "done"
    /\ call.fired # <<>>

\* C19 as stated: Enabled of a probe whose _fire is not NULL returns false
\* exactly when the first byte of the trampoline is the no-op 0x90 and
\* true for every other byte 0x00..0xFF; it returns false when _fire is
\* NULL.
C19_FalseExactlyForNop ==
    \A i \in 1..Len(probes) :
        Enabled(probes[i], mem) <=>
            (probes[i].fire # 0 /\ Peek(mem, probes[i].fire) # NopByte)

\* The byte b has the bit of value 128 and the bit of value 16 set.
BothBitsSet(b) == (b \div 128) % 2 = 1 /\ (b \div 16) % 2 = 1

\* C19: Enabled of a probe whose _fire is not NULL returns false exactly
\* when the first byte of the trampoline has both bits of 0x90 set (the
\* no-op 0x90 among them) and true for every other byte 0x00..0xFF; it
\* returns false when _fire is NULL.
C19_FalseExactlyForMask ==
    \A i \in 1..Len(probes) :
        /\ Enabled(probes[i], mem) <=>
              (probes[i].fire # 0 /\ ~BothBitsSet(Peek(mem, probes[i].fire)))
        /\ (probes[i].fire # 0 /\ Peek(mem, probes[i].fire) = NopByte)
              => ~Enabled(probes[i], mem)

\* The trampoline of a loaded probe starts with 0xF1, which is not the
\* no-op, and Enabled is false.
C19_Witness ==
    /\ Len(probes) >= 1
    /\ probes[1].fire # 0
    /\ Peek(mem, probes[1].fire) = 241
    /\ ~Enabled(probes[1], mem)

Holds(c) ==
    IF c.pc \in {"native", "return"}
    THEN {c.defers[k] : k \in 1..Len(c.defers)} ELSE {}

\* C16: when goroutines fire a probe of a loaded provider at the same time
\* and nothing unloads or disposes of it, the buffers of a call are its
\* own and stay live until it returns, each is freed once, by the call
\* that allocated it, and each native probeFire is passed the arguments of
\* the call that made it.
C16_ConcurrentFiresKeepApart ==
    /\ Holds(call) \cap Holds(peer) = {}
    /\ DOMAIN heap = Holds(call) \cup Holds(peer)
    /\ \A c \in {call, peer} :
          /\ c.pc = "done" =>
                /\ ~c.badfree
                /\ Len(c.freed) = Len(c.defers)
                /\ \A k \in 1..Len(c.defers) :
                      Cardinality({j \in 1..Len(c.freed) :
                                      c.freed[j] = c.defers[k]}) = 1
          /\ c.fired # <<>> =>
                /\ Len(c.fired) = 1
                /\ Len(c.fired[1]) = Len(c.args)
                /\ \A i \in 1..Len(c.fired[1]) :
                      c.fired[1][i] = Expected(c.args[i])

\* One call is about to make its native call with two buffers of its own
\* while the other, which began later with other arguments, has made its
\* native call and freed its buffers.
C16_Witness ==
    /\ call.pc = "native"
    /\ Len(call.defers) = 2
    /\ peer.pc = "done"
    /\ peer.fired # <<>>
    /\ Len(peer.freed) = 2
    /\ peer.args # call.args
    /\ \A a \in Holds(call) : \A j \in 1..Len(peer.freed) : a < peer.freed[j]

\* C21: in every Fire call the marshalling loop assigns only slots of ba
\* below the number of types the probe was declared with, which is at
\* most 6; it never indexes past the array, and the slots it does not
\* assign stay nil.
C21_WritesOnlyDeclaredSlots ==
    /\ \A i \in 1..Len(probes) : probes[i].declared <= MAX_ARGUMENTS
    /\ call.pc # "idle" =>
          /\ call.written \subseteq 1..Fired.declared
          /\ call.written \subseteq 1..MAX_ARGUMENTS
          /\ call.written \subseteq 1..Len(call.args)
          /\ ~call.panicked
          /\ \A i \in (1..MAX_ARGUMENTS) \ call.written :
                call.ba[i] = ValSlot(0)

\* A Fire on a probe declared with 5 types assigned all 5 slots and
\* made its native call.
C21_Witness ==
    /\ call.pc = "done"
    /\ call.fired # <<>>
    /\ Fired.declared = 5
    /\ call.written = 1..5

\* The Fire call in call went on to fireImpl.
Entered == call.pc # "idle" /\ call.enabled /\ Len(call.args) = Fired.argCount

\* The arguments before position i have types fireImpl has a case for.
Reaches(args, i) == \A j \in 1..(i - 1) : args[j].t \in SupportedTypes

\* C22: a boolean argument is a supported argument of Fire: the loop
\* stores it by value, as 1 for true and 0 for false and nothing else,
\* and the native call is passed that value.
C22_BoolIsOneOrZero ==
    (Entered /\ call.pc \in {"native", "return", "done"}) =>
        \A i \in 1..Len(call.args) :
            (call.args[i].t = "bool" /\ Reaches(call.args, i)) =>
                /\ i \in call.written
                /\ call.ba[i].kind = "val"
                /\ call.ba[i].buf = 0
                /\ call.ba[i].bytes =
                      IF call.args[i].b THEN <<1, 0, 0, 0, 0, 0, 0, 0>>
                                        ELSE <<0, 0, 0, 0, 0, 0, 0, 0>>
                /\ call.fired # <<>> =>
                      call.fired[1][i].bytes = call.ba[i].bytes

\* A native call was passed a false among four arguments.
C22_Witness ==
    /\ call.pc = "done"
    /\ call.fired # <<>>
    /\ Len(call.args) = 4
    /\ call.args[4].t = "bool"
    /\ ~call.args[4].b
    /\ call.fired[1][4].bytes = <<0, 0, 0, 0, 0, 0, 0, 0>>

\* The width in bytes and the signedness of an integer type (int, uint and
\* uintptr are 64 bits wide where a pointer is).
Width(t) ==
    IF t \in {"int8", "uint8"} THEN 1
    ELSE IF t \in {"int16", "uint16"} THEN 2
    ELSE IF t \in {"int32", "uint32"} THEN 4
    ELSE 8

Signed(t) == t \in {"int8", "int16", "int32", "int64", "int"}

\* The w <= 4 low bytes of a slot read as a two's complement number.
SignedRead(bytes, w) ==
    LET low == [j \in 1..(w - 1) |-> bytes[j] * (256 ^ (j - 1))]
        Sum[k \in 0..(w - 1)] == IF k = 0 THEN 0 ELSE Sum[k - 1] + low[k]
        top == IF bytes[w] >= 128 THEN bytes[w] - 256 ELSE bytes[w]
    IN  Sum[w - 1] + top * (256 ^ (w - 1))

\* The slot, truncated to the width of t and read with the signedness of
\* t, is the number n (|n| < 2^31).
SlotReadsAs(bytes, t, n) ==
    LET w == Width(t)
        Upper(b) == \A j \in 5..8 : bytes[j] = b
    IN  IF w = 8
        THEN \/ Upper(0) /\ bytes[4] < 128 /\ SignedRead(bytes, 4) = n
             \/ Signed(t) /\ Upper(255) /\ bytes[4] >= 128
                   /\ SignedRead(bytes, 4) = n
        ELSE IF Signed(t) THEN SignedRead(bytes, w) = n
        ELSE IF bytes[w] < 128 THEN SignedRead(bytes, w) = n
        ELSE w < 4 /\ SignedRead(bytes, w) + 256 ^ w = n

\* C23: an integer argument of a signed or unsigned type of 8, 16, 32 or
\* 64 bits is stored by value in its slot: the slot cut to the width of
\* the type and read with its signedness is the argument, the bytes above
\* the width are the sign extension of a negative value and zero
\* otherwise, and no buffer is allocated for it.
C23_IntegerSlotRoundTrip ==
    (Entered /\ call.pc \in {"native", "return", "done"}) =>
        \A i \in 1..Len(call.args) :
            (call.args[i].t \in IntTypes /\ Reaches(call.args, i)) =>
                /\ i \in call.written
                /\ call.ba[i].kind = "val"
                /\ call.ba[i].buf = 0
                /\ SlotReadsAs(call.ba[i].bytes, call.args[i].t, call.args[i].n)
                /\ \A j \in (Width(call.args[i].t) + 1)..8 :
                      call.ba[i].bytes[j] =
                         IF call.args[i].n < 0 THEN 255 ELSE 0
                /\ call.fired # <<>> =>
                      call.fired[1][i] =
                         [kind |-> "val", bytes |-> call.ba[i].bytes]
                /\ (\A j \in 1..Len(call.args) : call.args[j].t \in IntTypes)
                      => call.defers = <<>> /\ heap = <<>>

\* A native call was passed a negative 64-bit integer.
C23_Witness ==
    /\ call.pc = "done"
    /\ call.fired # <<>>
    /\ call.args = << GoInt("int64", -2147483647) >>
    /\ call.fired[1][1].bytes = <<1, 0, 0, 128, 255, 255, 255, 255>>

\* C24 as stated: whatever a tracer or an Unload does between the test of
\* Fire and its native call, every native call is made while the probe
\* is enabled: the provider Loaded and a tracer attached to the probe.
C24_FiresOnlyWhileEnabled ==
    call.fired # <<>> => call.watched

\* C24: every native call is made by a Fire whose test found the probe
\* enabled, the provider Loaded and a tracer attached at that test, with
\* as many arguments as the probe records; what the tracer or an Unload
\* does after the test does not stop the call.
C24_FiresOnlyAfterEnabledTest ==
    call.fired # <<>> =>
        /\ call.enabled
        /\ call.snap[1].state = "Loaded"
        /\ call.snap[2][call.pr].fire # 0
        /\ Len(call.args) = call.snap[2][call.pr].argCount
        /\ Len(call.fired) = 1

\* A native call was made after the tracer had detached from the probe of
\* a provider that is still loaded.
C24_Witness ==
    /\ call.pc = "return"
    /\ call.fired # <<>>
    /\ call.enabled
    /\ ~call.watched
    /\ provider.state = "Loaded"

\* C25: whether Fire makes its native call, and the slots it passes, are
\* decided by the test of Enabled, the number of arguments and their
\* runtime types and values, whatever tags the probe was declared with:
\* arguments of supported types are passed also where they do not match
\* the declared tags.
C25_TagsDoNotDecide ==
    call.pc = "done" =>
        call.fired =
            IF /\ call.enabled
               /\ Len(call.args) = Fired.argCount
               /\ AllSupported(call.args)
            THEN << [i \in 1..Len(call.args) |-> Expected(call.args[i])] >>
            ELSE <<>>

\* A native call was passed a string in a slot declared Int32 and an
\* integer in a slot declared String.
C25_Witness ==
    /\ call.pc = "done"
    /\ call.fired # <<>>
    /\ Fired.argFmt[1] = Int32
    /\ Fired.argFmt[2] = String
    /\ call.args[1].t = "string"
    /\ call.args[2].t = "int"
    /\ call.fired[1][1] = Expected(call.args[1])

=============================================================================
